---- MODULE Spec2Model ----
(***************************************************************************)
(* Model of ScryptServer: the scrypt worker (src/src/Worker.ts), the       *)
(* legacy V1 worker whose records are still in circulation                 *)
(* (src/dist/Worker.js), the client's availability state machine          *)
(* (src/src/ScryptClient.ts) and the two routes of the server              *)
(* (src/src/ScryptServer.ts).                                              *)
(*                                                                         *)
(* Buffers are sequences of bytes (0..255).  JavaScript strings are        *)
(* sequences of character codes.  Base64 text is a sequence of symbols:    *)
(* 0..63 are the sextets of the alphabet A-Za-z0-9+/, PadSymbol is '=' and *)
(* BadSymbol is any character outside the alphabet.                        *)
(***************************************************************************)
EXTENDS Integers, Sequences, FiniteSets, Bags, TLC

VARIABLES
    hashData,      \* Worker.hash: the data argument of the last call
    hashParams,    \* Worker.hash: the params argument of the last call
    hashSalt,      \* Worker.hash: the salt randomBytes drew in the last call
    hashOut,       \* Worker.hash: what the last call returned or threw
    stored,        \* the record a caller keeps: base64 text handed to compare
    storedBy,      \* the worker the last hash call ran on: "none", "v2" (Worker.ts) or "v1" (legacy)
    cmpData,       \* Worker.compare: the data argument of the last call
    cmpHash,       \* Worker.compare: the hashBase64 argument of the last call
    cmpOut         \* Worker.compare: what the last call returned or threw

VARIABLES
    _consecutiveErrors,  \* ScryptClient: remote failures counted by the catch blocks
    _offlineUntil,       \* ScryptClient: the time up to which the remote is skipped
    _defaultParams,      \* ScryptClient: the parameters the constructor resolved
    _workerPool,         \* ScryptClient: maxWorkers of the local pool, 0 when there is none
    now,                 \* Date.now()
    calls,               \* the hash() and compare() calls in progress, a bag of records
    queue,               \* the local pool's waiting jobs, oldest first
    started,             \* how many calls have been made so far
    failedInARow,        \* history: attempts that ended in the catch block since the last one answered with a result
    lastFailureAt,       \* history: Date.now() in the catch block that ran last
    lastStart            \* history: Date.now(), _offlineUntil and the branch taken when the last call began

VARIABLES
    httpRequest,   \* ScryptServer: the route and the body of the last POST
    httpResponse   \* ScryptServer: the status and the JSON body answered to it

workerVars == <<hashData, hashParams, hashSalt, hashOut, stored, storedBy,
                cmpData, cmpHash, cmpOut>>

clientVars == <<_consecutiveErrors, _offlineUntil, _defaultParams, _workerPool, now,
                calls, queue, started, failedInARow, lastFailureAt,
                lastStart>>

serverVars == <<httpRequest, httpResponse>>

vars == <<workerVars, clientVars, serverVars>>

-----------------------------------------------------------------------------
(* Bounds of the model *)

\* how many different salts randomBytes may draw for one length
NumSalts == 2

\* how many client calls can be in progress at once
MaxInProgress == 2

\* how many client calls are made in one run
MaxCalls == 2

-----------------------------------------------------------------------------
(* Program constants *)

BINARY_VERSION == 2
LEGACY_BINARY_VERSION == 1
MaxDataLength == 2048
MinHashLength == 6
HeaderLengthV2 == 4
HeaderLengthV1 == 6
PadSymbol == 64
BadSymbol == 65
_backoffIncrement == 5000
_maxBackoff == 300000

-----------------------------------------------------------------------------
(* JavaScript arithmetic on the small non-negative integers the worker uses *)

RECURSIVE BitAnd(_, _)
BitAnd(a, b) ==
    IF a = 0 \/ b = 0 THEN 0
    ELSE (a % 2) * (b % 2) + 2 * BitAnd(a \div 2, b \div 2)

RECURSIVE Pow2(_)
Pow2(n) == IF n = 0 THEN 1 ELSE 2 * Pow2(n - 1)

RECURSIVE Log2(_)
Log2(n) == IF n <= 1 THEN 0 ELSE 1 + Log2(n \div 2)

ShiftLeft(a, n) == a * Pow2(n)
ShiftRight(a, n) == a \div Pow2(n)

\* a | b for operands with no common bit is a + b; in general a + b - (a & b)
BitOr(a, b) == a + b - BitAnd(a, b)

IsByte(v) == v \in 0..255

Min(a, b) == IF a <= b THEN a ELSE b

-----------------------------------------------------------------------------
(* Outcomes of a call: a returned value or a thrown Error with its message *)

Returned(v) == [ok |-> TRUE, value |-> v, error |-> "none"]
ThrownBuffer(e) == [ok |-> FALSE, value |-> <<>>, error |-> e]
ThrownBool(e) == [ok |-> FALSE, value |-> FALSE, error |-> e]
NoCall == [ok |-> FALSE, value |-> <<>>, error |-> "not called"]
NoCompare == [ok |-> FALSE, value |-> FALSE, error |-> "not called"]

ErrData == "Missing, invalid or too much data"
ErrSaltLength == "Invalid salt length"
ErrCostRange == "Invalid cost parameter (4096-524288)"
ErrCostPower == "Invalid cost (not be a power of 2)"
ErrBlockSize == "Invalid blockSize parameter (1-16)"
ErrParallelization == "Invalid parallelization parameter (1-16)"
ErrSaltlen == "Invalid saltlen (16-47)"
ErrKeylen == "Invalid keylen (16-271)"
ErrDerivedLength == "Derived key length does not match keylen"
ErrOutOfRange == "The value is out of range"
ErrHashText == "Missing or invalid hash"
ErrHashBuffer == "Missing or invalid hash buffer"
ErrHashLength == "Invalid hash buffer length"
ErrVersion == "Unsupported binary version"

-----------------------------------------------------------------------------
(* Buffer <-> base64 text *)

\* Buffer.prototype.toString( 'base64' )
ByteAt(buf, i) == IF i <= Len(buf) THEN buf[i] ELSE 0

toBase64(buf) ==
    [j \in 1..(4 * ((Len(buf) + 2) \div 3)) |->
        LET g == (j - 1) \div 4
            pos == (j - 1) % 4
            b0 == ByteAt(buf, 3 * g + 1)
            b1 == ByteAt(buf, 3 * g + 2)
            b2 == ByteAt(buf, 3 * g + 3)
        IN CASE pos = 0 -> b0 \div 4
             [] pos = 1 -> (b0 % 4) * 16 + (b1 \div 16)
             [] pos = 2 -> IF 3 * g + 2 > Len(buf) THEN PadSymbol
                           ELSE (b1 % 16) * 4 + (b2 \div 64)
             [] pos = 3 -> IF 3 * g + 3 > Len(buf) THEN PadSymbol
                           ELSE b2 % 64]

\* /^(?:[A-Za-z0-9+/]{4})*(?:[A-Za-z0-9+/]{2}==|[A-Za-z0-9+/]{3}=)?$/.test( text )
IsBase64Text(text) ==
    LET n == Len(text) IN
    /\ n % 4 = 0
    /\ \A i \in 1..n :
          \/ text[i] \in 0..63
          \/ /\ text[i] = PadSymbol
             /\ \/ i = n
                \/ i = n - 1 /\ text[n] = PadSymbol

\* Buffer.from( text, 'base64' ), for a text the regular expression accepted
SextetAt(text, i) == IF text[i] = PadSymbol THEN 0 ELSE text[i]

PadCount(text) ==
    LET n == Len(text) IN
    IF n = 0 THEN 0
    ELSE IF text[n - 1] = PadSymbol THEN 2
    ELSE IF text[n] = PadSymbol THEN 1
    ELSE 0

fromBase64(text) ==
    [i \in 1..(3 * (Len(text) \div 4) - PadCount(text)) |->
        LET g == (i - 1) \div 3
            pos == (i - 1) % 3
            s0 == SextetAt(text, 4 * g + 1)
            s1 == SextetAt(text, 4 * g + 2)
            s2 == SextetAt(text, 4 * g + 3)
            s3 == SextetAt(text, 4 * g + 4)
        IN CASE pos = 0 -> s0 * 4 + (s1 \div 16)
             [] pos = 1 -> (s1 % 16) * 16 + (s2 \div 4)
             [] pos = 2 -> (s2 % 4) * 64 + s3]

\* Buffer.prototype.subarray( from, to ) with 0-based offsets
subarray(buf, from, to) == SubSeq(buf, from + 1, Min(to, Len(buf)))

\* Buffer.prototype.readUInt16BE( 1 )
readUInt16BE(buf, offset) == buf[offset + 1] * 256 + buf[offset + 2]

-----------------------------------------------------------------------------
(* The external primitives *)

\* scryptSync: a deterministic function of its arguments that returns keylen
\* bytes.  Only the first and last character of the data and its length, and
\* the first and last byte of the salt, reach the key in this model.
DataDigest(data) == Len(data) * 31 + data[1] * 7 + data[Len(data)] * 3
SaltDigest(salt) == IF Len(salt) = 0 THEN 0 ELSE salt[1] * 5 + salt[Len(salt)] * 11

scryptSync(data, salt, keylen, cost, blockSize, parallelization) ==
    [i \in 1..keylen |->
        (DataDigest(data) + SaltDigest(salt) + Log2(cost) * 17 + blockSize * 19
            + parallelization * 23 + i * 13) % 256]

\* faulty variant: only the header and the first 16 bytes of salt are compared
timingSafeEqual_Prefix(a, b) == SubSeq(a, 1, 20) = SubSeq(b, 1, 20)

\* timingSafeEqual on two buffers of the same length
timingSafeEqual(a, b) == a = b

\* randomBytes( size ): the buffers the generator may return
SaltByte(seed, i) == (seed * (i + 84)) % 256
randomBytes(size) == { [i \in 1..size |-> SaltByte(seed, i)] : seed \in 0..(NumSalts - 1) }

-----------------------------------------------------------------------------
(* Worker.ts: _hash *)

ScryptParams(c, b, p, s, k) ==
    [cost |-> c, blockSize |-> b, parallelization |-> p, saltlen |-> s, keylen |-> k]

\* data && ( 0 < data.length ) && ( 2048 >= data.length )
DataLengthValid(data) == 0 < Len(data) /\ MaxDataLength >= Len(data)

\* salt && ( params.saltlen === salt.length )
SaltLengthMatches(salt, params) == params.saltlen = Len(salt)

\* faulty variant: the lower bound is exclusive
CostInRange_Strict(params) == 4096 < params.cost /\ 524288 >= params.cost

CostInRange(params) == 4096 <= params.cost /\ 524288 >= params.cost

CostIsPowerOfTwo(params) == 0 = BitAnd(params.cost, params.cost - 1)

BlockSizeValid(params) == 1 <= params.blockSize /\ 16 >= params.blockSize

ParallelizationValid(params) == 1 <= params.parallelization /\ 16 >= params.parallelization

SaltlenValid(params) == 16 <= params.saltlen /\ 47 >= params.saltlen

\* faulty variant: the upper bound of keylen is one too high
KeylenValid_UpTo272(params) == 16 <= params.keylen /\ 272 >= params.keylen

KeylenValid(params) == 16 <= params.keylen /\ 271 >= params.keylen

\* ( ( params.blockSize - 1 ) << 4 ) | ( params.parallelization - 1 )
HeaderByte1(params) ==
    BitOr(ShiftLeft(params.blockSize - 1, 4), params.parallelization - 1)

\* faulty variant: the cost exponent is shifted by 4 bits instead of 5
HeaderByte2_Shift4(params) ==
    BitOr(ShiftLeft(Log2(params.cost) - 12, 4), params.saltlen - 16)

\* ( Math.log2( params.cost ) - 12 ) << 5 | params.saltlen - 16
HeaderByte2(params) ==
    BitOr(ShiftLeft(Log2(params.cost) - 12, 5), params.saltlen - 16)

\* params.keylen - 16
HeaderByte3(params) == params.keylen - 16

\* faulty variant: the version byte was not moved on from the V1 value
EncodeRecord_OldVersion(params, salt, derivedKey) ==
    <<LEGACY_BINARY_VERSION, HeaderByte1(params), HeaderByte2(params), HeaderByte3(params)>>
        \o salt \o derivedKey

\* faulty variant: the salt is not copied into the buffer, its bytes stay zero
EncodeRecord_SaltNotCopied(params, salt, derivedKey) ==
    <<BINARY_VERSION, HeaderByte1(params), HeaderByte2(params), HeaderByte3(params)>>
        \o [i \in 1..Len(salt) |-> 0] \o derivedKey

\* the buffer _hash fills: version, three header bytes, salt, derived key
EncodeRecord(params, salt, derivedKey) ==
    <<BINARY_VERSION, HeaderByte1(params), HeaderByte2(params), HeaderByte3(params)>>
        \o salt \o derivedKey

\* the try block of _hash: derive, check the key length, write the buffer
\* (writeUInt8 throws on a value outside 0..255)
DeriveAndEncode(data, salt, params) ==
    LET derivedKey == scryptSync(data, salt, params.keylen, params.cost,
                                 params.blockSize, params.parallelization)
    IN IF Len(derivedKey) = params.keylen
       THEN IF /\ IsByte(HeaderByte1(params))
               /\ IsByte(HeaderByte2(params))
               /\ IsByte(HeaderByte3(params))
            THEN Returned(EncodeRecord(params, salt, derivedKey))
            ELSE ThrownBuffer(ErrOutOfRange)
       ELSE ThrownBuffer(ErrDerivedLength)

_hash(data, salt, params) ==
    IF ~DataLengthValid(data) THEN ThrownBuffer(ErrData)
    ELSE IF ~SaltLengthMatches(salt, params) THEN ThrownBuffer(ErrSaltLength)
    ELSE IF ~CostInRange(params) THEN ThrownBuffer(ErrCostRange)
    ELSE IF ~CostIsPowerOfTwo(params) THEN ThrownBuffer(ErrCostPower)
    ELSE IF ~BlockSizeValid(params) THEN ThrownBuffer(ErrBlockSize)
    ELSE IF ~ParallelizationValid(params) THEN ThrownBuffer(ErrParallelization)
    ELSE IF ~SaltlenValid(params) THEN ThrownBuffer(ErrSaltlen)
    ELSE IF ~KeylenValid(params) THEN ThrownBuffer(ErrKeylen)
    ELSE DeriveAndEncode(data, salt, params)

\* the calls of scryptSync one call of _hash makes, with their arguments: the
\* one at the bottom of the nested checks
_hashDerivations(data, salt, params) ==
    IF /\ DataLengthValid(data)
       /\ SaltLengthMatches(salt, params)
       /\ CostInRange(params)
       /\ CostIsPowerOfTwo(params)
       /\ BlockSizeValid(params)
       /\ ParallelizationValid(params)
       /\ SaltlenValid(params)
       /\ KeylenValid(params)
    THEN <<[data |-> data, salt |-> salt, params |-> params]>>
    ELSE <<>>

\* Worker.ts: hash, once randomBytes has returned salt
hash(data, salt, params) ==
    LET r == _hash(data, salt, params)
    IN IF r.ok THEN Returned(toBase64(r.value)) ELSE r

-----------------------------------------------------------------------------
(* Worker.ts: compare *)

\* faulty variant: the length check asks for the 4-byte V2 header only
HashLongEnough_HeaderV2(buf) == HeaderLengthV2 <= Len(buf)

\* hash && 6 < hash.length
HashLongEnough(buf) == MinHashLength < Len(buf)

\* case 0x01: the parameters read from the 6-byte header
DecodeParamsV1(buf) ==
    ScryptParams(readUInt16BE(buf, 1),
                 ShiftRight(buf[4], 4),
                 BitAnd(buf[4], 15),
                 buf[5],
                 buf[6])

\* case 0x02: the parameters read from the 4-byte header
\* faulty variant: the salt length is read with a 4-bit mask
DecodeSaltlenV2_Mask15(buf) == BitAnd(buf[3], 15) + 16

DecodeSaltlenV2(buf) == BitAnd(buf[3], 31) + 16

DecodeKeylenV2(buf) == buf[4] + 16

\* faulty variant: the cost exponent is counted from 11, as if cost 2048 were allowed
DecodeParamsV2_CostFrom2048(buf) ==
    ScryptParams(Pow2(ShiftRight(buf[3], 5) + 11),
                 ShiftRight(buf[2], 4) + 1,
                 BitAnd(buf[2], 15) + 1,
                 DecodeSaltlenV2(buf),
                 DecodeKeylenV2(buf))

DecodeParamsV2(buf) ==
    ScryptParams(Pow2(ShiftRight(buf[3], 5) + 12),
                 ShiftRight(buf[2], 4) + 1,
                 BitAnd(buf[2], 15) + 1,
                 DecodeSaltlenV2(buf),
                 DecodeKeylenV2(buf))

ExpectedLengthV1(buf) == HeaderLengthV1 + buf[5] + buf[6]

\* faulty variant: trailing bytes after the key are tolerated
ExpectedLengthV2_AtLeast(buf) ==
    IF Len(buf) >= HeaderLengthV2 + DecodeSaltlenV2(buf) + DecodeKeylenV2(buf)
    THEN Len(buf)
    ELSE HeaderLengthV2 + DecodeSaltlenV2(buf) + DecodeKeylenV2(buf)

ExpectedLengthV2(buf) == HeaderLengthV2 + DecodeSaltlenV2(buf) + DecodeKeylenV2(buf)

\* faulty variant: the salt is sliced one byte too late
Rederive_SaltOffByOne(data, buf, headerLength, params) ==
    LET derived == _hash(data,
                         subarray(buf, headerLength + 1, headerLength + 1 + params.saltlen),
                         params)
    IN IF ~derived.ok THEN ThrownBool(derived.error)
       ELSE IF Len(derived.value) = Len(buf)
            THEN Returned(timingSafeEqual(derived.value, buf))
            ELSE Returned(FALSE)

\* the end of both cases: _hash on the decoded salt and parameters, then
\* timingSafeEqual when the two buffers have the same length
Rederive(data, buf, headerLength, params) ==
    LET derived == _hash(data, subarray(buf, headerLength, headerLength + params.saltlen),
                         params)
    IN IF ~derived.ok THEN ThrownBool(derived.error)
       ELSE IF Len(derived.value) = Len(buf)
            THEN Returned(timingSafeEqual(derived.value, buf))
            ELSE Returned(FALSE)

CompareV1(data, buf) ==
    IF ExpectedLengthV1(buf) = Len(buf)
    THEN Rederive(data, buf, HeaderLengthV1, DecodeParamsV1(buf))
    ELSE ThrownBool(ErrHashLength)

CompareV2(data, buf) ==
    IF ExpectedLengthV2(buf) = Len(buf)
    THEN Rederive(data, buf, HeaderLengthV2, DecodeParamsV2(buf))
    ELSE ThrownBool(ErrHashLength)

\* the switch on hash.readUInt8( 0 )
CompareBuffer(data, buf) ==
    IF ~HashLongEnough(buf) THEN ThrownBool(ErrHashBuffer)
    ELSE IF buf[1] = 1 THEN CompareV1(data, buf)
    ELSE IF buf[1] = 2 THEN CompareV2(data, buf)
    ELSE ThrownBool(ErrVersion)

\* faulty variant: the hash text is checked before the data
compare_TextFirst(data, hashBase64) ==
    IF ~IsBase64Text(hashBase64) THEN ThrownBool(ErrHashText)
    ELSE IF ~DataLengthValid(data) THEN ThrownBool(ErrData)
    ELSE CompareBuffer(data, fromBase64(hashBase64))

compare(data, hashBase64) ==
    IF ~DataLengthValid(data) THEN ThrownBool(ErrData)
    ELSE IF ~IsBase64Text(hashBase64) THEN ThrownBool(ErrHashText)
    ELSE CompareBuffer(data, fromBase64(hashBase64))

\* the calls of scryptSync one call of compare makes: those of the _hash it
\* reaches in case 0x01 or case 0x02
compareDerivations(data, hashBase64) ==
    IF ~DataLengthValid(data) \/ ~IsBase64Text(hashBase64) THEN <<>>
    ELSE LET buf == fromBase64(hashBase64) IN
         IF ~HashLongEnough(buf) THEN <<>>
         ELSE IF buf[1] = 1 /\ ExpectedLengthV1(buf) = Len(buf)
              THEN _hashDerivations(data,
                       subarray(buf, HeaderLengthV1, HeaderLengthV1 + DecodeParamsV1(buf).saltlen),
                       DecodeParamsV1(buf))
         ELSE IF buf[1] = 2 /\ ExpectedLengthV2(buf) = Len(buf)
              THEN _hashDerivations(data,
                       subarray(buf, HeaderLengthV2, HeaderLengthV2 + DecodeParamsV2(buf).saltlen),
                       DecodeParamsV2(buf))
         ELSE <<>>

-----------------------------------------------------------------------------
(* dist/Worker.js: the V1 worker that wrote the records with byte 0 = 0x01 *)

LegacyParamsValid(params) ==
    /\ 1023 < params.cost /\ 65537 > params.cost
    /\ 0 = BitAnd(params.cost, params.cost - 1)
    /\ 0 < params.blockSize /\ 16 > params.blockSize
    /\ 0 < params.parallelization /\ 16 > params.parallelization
    /\ 15 < params.saltlen /\ 256 > params.saltlen
    /\ 15 < params.keylen /\ 256 > params.keylen

\* writeUInt16BE( cost, 1 ), writeUInt8( ( blockSize << 4 ) | parallelization, 3 ),
\* writeUInt8( saltlen, 4 ), writeUInt8( keylen, 5 ), salt, derived key
LegacyEncodeRecord(params, salt, derivedKey) ==
    <<LEGACY_BINARY_VERSION,
      params.cost \div 256,
      params.cost % 256,
      BitOr(ShiftLeft(params.blockSize, 4), params.parallelization),
      params.saltlen,
      params.keylen>> \o salt \o derivedKey

LegacyHash(data, salt, params) ==
    IF ~DataLengthValid(data) THEN ThrownBuffer(ErrData)
    ELSE IF params.saltlen # Len(salt) THEN ThrownBuffer(ErrSaltLength)
    ELSE IF ~LegacyParamsValid(params) THEN ThrownBuffer("Invalid parameter")
    ELSE IF params.cost > 65535 THEN ThrownBuffer(ErrOutOfRange)
    ELSE Returned(toBase64(LegacyEncodeRecord(params, salt,
            scryptSync(data, salt, params.keylen, params.cost,
                       params.blockSize, params.parallelization))))

-----------------------------------------------------------------------------
(* The inputs the calls are made with *)

Repeat(c, n) == [i \in 1..n |-> c]

\* '', 'a', 'b', 'ab', 'a'.repeat( 2048 ), 'a'.repeat( 2049 )
DataValues ==
    {<<>>, <<97>>, <<98>>, <<97, 98>>,
     Repeat(97, MaxDataLength), Repeat(97, MaxDataLength + 1)}

CostValues == {2048, 4095, 4096, 5000, 16384, 524288, 524289, 1048576}
BlockSizeValues == {0, 1, 8, 16, 17}
ParallelizationValues == {0, 1, 4, 16, 17}
SaltlenValues == {-1, 15, 16, 20, 47, 48}
KeylenValues == {15, 16, 32, 271, 272}

DefaultTuple == ScryptParams(16384, 8, 4, 20, 32)
MinTuple == ScryptParams(4096, 1, 1, 16, 16)
MaxTuple == ScryptParams(524288, 16, 16, 47, 271)

\* every value of one field around each base tuple, every combination of the
\* extreme valid values, and tuples with two fields out of bounds
ParamTuples ==
    LET bases == {DefaultTuple, MinTuple, MaxTuple} IN
    UNION {
        { [b EXCEPT !.cost = c] : c \in CostValues }
        \cup { [b EXCEPT !.blockSize = v] : v \in BlockSizeValues }
        \cup { [b EXCEPT !.parallelization = v] : v \in ParallelizationValues }
        \cup { [b EXCEPT !.saltlen = v] : v \in SaltlenValues }
        \cup { [b EXCEPT !.keylen = v] : v \in KeylenValues }
        : b \in bases }
    \cup { ScryptParams(c, b, p, s, k) :
             c \in {4096, 524288}, b \in {1, 16}, p \in {1, 16},
             s \in {16, 47}, k \in {16, 271} }
    \cup { [DefaultTuple EXCEPT !.cost = c, !.saltlen = s] :
             c \in {2048, 5000}, s \in {-1, 15, 48} }
    \cup { [DefaultTuple EXCEPT !.blockSize = b, !.keylen = k] :
             b \in {0, 17}, k \in {15, 272} }
    \cup { [DefaultTuple EXCEPT !.parallelization = p, !.saltlen = s] :
             p \in {0, 17}, s \in {15, 48} }

\* parameters of records written by the V1 worker
LegacyParamTuples ==
    {ScryptParams(1024, 1, 1, 16, 16),
     ScryptParams(4096, 8, 1, 16, 32),
     ScryptParams(16384, 8, 4, 20, 32),
     ScryptParams(2048, 8, 1, 48, 64),
     ScryptParams(32768, 15, 15, 255, 255)}

\* what a caller may hand to compare as hashBase64, given the record it keeps:
\* the record, damaged texts, and damaged or truncated buffers encoded again
Prefix(buf, n) == SubSeq(buf, 1, Min(n, Len(buf)))

SetByte(buf, i, v) == IF 1 <= i /\ i <= Len(buf) THEN [buf EXCEPT ![i] = v] ELSE buf

DamagedBuffers(buf) ==
    { Append(buf, 0),
      Prefix(buf, Len(buf) - 1),
      SetByte(buf, 1, 3),
      SetByte(buf, 1, 0),
      SetByte(buf, 1, 3 - ByteAt(buf, 1)),
      SetByte(buf, 4, (ByteAt(buf, 4) + 1) % 256),
      SetByte(buf, Len(buf), (ByteAt(buf, Len(buf)) + 1) % 256) }
    \cup { Prefix(buf, n) : n \in 1..8 }
    \cup { SetByte(Prefix(buf, n), 1, 3) : n \in 1..8 }

CraftedBuffers ==
    { <<1, 16, 0, 129, 0, 0>>,
      <<1, 16, 0, 129, 0, 1, 7>>,
      <<2, 0, 0, 0, 9, 9, 9>>,
      <<3, 0, 0, 0, 0, 0, 0>>,
      <<255>> }

DamagedTexts(text) ==
    { <<>>,
      Prefix(text, Len(text) - 1),
      SetByte(text, 1, BadSymbol),
      SetByte(text, 2, PadSymbol),
      <<BadSymbol, BadSymbol, BadSymbol, BadSymbol>> }

HashArguments(text) ==
    {text} \cup DamagedTexts(text)
    \cup { toBase64(b) : b \in CraftedBuffers }
    \cup (IF IsBase64Text(text)
          THEN { toBase64(b) : b \in DamagedBuffers(fromBase64(text)) }
          ELSE {})

-----------------------------------------------------------------------------
(* ScryptClient.ts: the client and its availability state *)

BuiltInDefaults == ScryptParams(16384, 8, 1, 16, 32)

NoParams == [f \in {} |-> 0]

\* given.field ?? fallback.field, for each of the five fields
Coalesce(given, fallback, f) == IF f \in DOMAIN given THEN given[f] ELSE fallback[f]

\* faulty variant: the values given to the constructor are not looked at
ResolveParams_BuiltInOnly(given, fallback) ==
    ScryptParams(Coalesce(given, BuiltInDefaults, "cost"),
                 Coalesce(given, BuiltInDefaults, "blockSize"),
                 Coalesce(given, BuiltInDefaults, "parallelization"),
                 Coalesce(given, BuiltInDefaults, "saltlen"),
                 Coalesce(given, BuiltInDefaults, "keylen"))

ResolveParams(given, fallback) ==
    ScryptParams(Coalesce(given, fallback, "cost"),
                 Coalesce(given, fallback, "blockSize"),
                 Coalesce(given, fallback, "parallelization"),
                 Coalesce(given, fallback, "saltlen"),
                 Coalesce(given, fallback, "keylen"))

\* faulty variant: 0 is taken as "choose for me", like -1
PoolSize_ZeroIsAuto(maxConcurrencyFallback, cores) ==
    LET n == IF maxConcurrencyFallback \in {-1, 0}
             THEN ((IF 0 < cores THEN cores ELSE 1) + 3) \div 4
             ELSE maxConcurrencyFallback
    IN IF 0 < n THEN n ELSE 0

\* the constructor: -1 asks for a quarter of the cores, at least one worker
PoolSize(maxConcurrencyFallback, cores) ==
    LET n == IF maxConcurrencyFallback = -1
             THEN ((IF 0 < cores THEN cores ELSE 1) + 3) \div 4
             ELSE maxConcurrencyFallback
    IN IF 0 < n THEN n ELSE 0

OfflineMessage == "Service is currently offline"
TransportMessage == "transport error"
ServerErrorMessage == "error reported by the service"

NoReturn == [error |-> "undefined", result |-> "undefined"]
WithError(e) == [error |-> e, result |-> "undefined"]
WithResult(r) == [error |-> "undefined", result |-> r]

NewCall ==
    [pc |-> "new", op |-> "none", data |-> <<>>, params |-> BuiltInDefaults,
     hash |-> <<>>, sent |-> NoParams, remote |-> "none", updates |-> <<>>,
     ret |-> NoReturn]

\* Math.min( this._maxBackoff, n * this._backoffIncrement )
Backoff(n) == Min(_maxBackoff, n * _backoffIncrement)

\* faulty variant: the remote is tried again at the very end of the window
RemoteAllowed_AtWindowEnd == now >= _offlineUntil

\* Date.now() > this._offlineUntil
RemoteAllowed == now > _offlineUntil

\* what the callers pass
ClientRecord == hash(<<97>>, Repeat(0, 16), BuiltInDefaults).value
HashCalls == {<<<<97>>, NoParams>>, <<<<>>, [cost |-> 4096]>>}
CompareCalls == {<<<<97>>, ClientRecord>>}
\* new ScryptClient( baseUrl, defaultParams, cacert, maxConcurrencyFallback ),
\* on a machine with so many cores
Constructions ==
    {[given |-> NoParams, maxConcurrencyFallback |-> 0, cores |-> 4],
     [given |-> [cost |-> 8192, keylen |-> 16], maxConcurrencyFallback |-> 1, cores |-> 4],
     [given |-> [cost |-> 8192, keylen |-> 16], maxConcurrencyFallback |-> -1, cores |-> 4]}

\* the JSON bodies the service may answer with, as the client reads them
ResponseBodies(op) ==
    {WithError(ServerErrorMessage), NoReturn}
    \cup (IF op = "hash" THEN {WithResult("record")} ELSE {WithResult("true")})

\* the responses: an HTTP status, which the client never reads, and a body
Responses(op) ==
    {[status |-> 200, body |-> b] : b \in ResponseBodies(op)}
    \cup {[status |-> 400, body |-> WithError(ServerErrorMessage)]}

\* how a remote attempt that got a JSON object ended, for the call's record
Answered(response) ==
    IF response.status # 200 THEN "refused"
    ELSE IF response.body.error # "undefined" THEN "error"
    ELSE IF response.body.result # "undefined" THEN "result"
    ELSE "empty"

\* the calls in progress form a bag: two callers may pass the same arguments
Add(bag, call) == bag (+) SetToBag({call})
Remove(bag, call) == bag (-) SetToBag({call})
At(pc) == {call \in BagToSet(calls) : call.pc = pc}
InProgress == BagCardinality(calls) + Len(queue)

\* faulty variant: only a transport error or a skipped attempt goes to the pool
AfterRemote_TransportOnly(others, call, ret) ==
    IF ret.error \in {OfflineMessage, TransportMessage} /\ _workerPool > 0
    THEN /\ calls' = others
         /\ queue' = Append(queue, [call EXCEPT !.pc = "queued", !.ret = NoReturn])
    ELSE /\ calls' = Add(others, [call EXCEPT !.pc = "done", !.ret = ret])
         /\ queue' = queue

\* faulty variant: the call returns what the remote attempt left, pool or not
AfterRemote_NoFallback(others, call, ret) ==
    /\ calls' = Add(others, [call EXCEPT !.pc = "done", !.ret = ret])
    /\ queue' = queue

\* the part of hash() and compare() after the remote attempt: the local
\* fallback when there is an error and a pool, else the return
AfterRemote(others, call, ret) ==
    IF ret.error # "undefined" /\ _workerPool > 0
    THEN /\ calls' = others
         /\ queue' = Append(queue, [call EXCEPT !.pc = "queued", !.ret = NoReturn])
    ELSE /\ calls' = Add(others, [call EXCEPT !.pc = "done", !.ret = ret])
         /\ queue' = queue

\* Object.assign( { data: data }, finalParams ): the parameters in the body
\* of the request; compare sends the data and the hash only
Body(call) == IF call.op = "hash" THEN call.params ELSE NoParams

\* the start of a call up to its first await
Start(call) ==
    /\ InProgress < MaxInProgress
    /\ started < MaxCalls
    /\ started' = started + 1
    /\ IF RemoteAllowed
       THEN /\ calls' = Add(calls, [call EXCEPT !.pc = "request", !.sent = Body(call)])
            /\ queue' = queue
            /\ lastStart' = [at |-> now, until |-> _offlineUntil, sent |-> TRUE]
       ELSE /\ AfterRemote(calls, [call EXCEPT !.remote = "skipped"],
                           WithError(OfflineMessage))
            /\ lastStart' = [at |-> now, until |-> _offlineUntil, sent |-> FALSE]
    /\ UNCHANGED <<_consecutiveErrors, _offlineUntil, _defaultParams, _workerPool, now,
                   failedInARow, lastFailureAt>>
    /\ UNCHANGED <<workerVars, serverVars>>

\* hash( data, params )
StartHash ==
    \E args \in HashCalls :
        Start([NewCall EXCEPT !.op = "hash", !.data = args[1],
                              !.params = ResolveParams(args[2], _defaultParams)])

\* compare( data, hashBase64 )
StartCompare ==
    \E args \in CompareCalls :
        Start([NewCall EXCEPT !.op = "compare", !.data = args[1], !.hash = args[2]])

\* the catch block of the remote attempt
RemoteFailed(call, how) ==
    /\ _consecutiveErrors' = _consecutiveErrors + 1
    /\ _offlineUntil' = now + Backoff(_consecutiveErrors + 1)
    /\ AfterRemote(Remove(calls, call),
                   [call EXCEPT !.remote = how, !.updates = Append(@, "failure")],
                   WithError(TransportMessage))
    /\ failedInARow' = failedInARow + 1
    /\ lastFailureAt' = now
    /\ UNCHANGED <<_defaultParams, _workerPool, now, started, lastStart>>
    /\ UNCHANGED <<workerVars, serverVars>>

\* await request(...) rejects: no connection, a timeout
RequestRejects(call) ==
    /\ call.pc = "request"
    /\ RemoteFailed(call, "rejected")

\* await request(...) resolves with the response headers, whatever the status
ResponseArrives(call) ==
    /\ call.pc = "request"
    /\ _consecutiveErrors' = 0
    /\ calls' = Add(Remove(calls, call),
                    [call EXCEPT !.pc = "body", !.updates = Append(@, "reset")])
    /\ UNCHANGED <<_offlineUntil, _defaultParams, _workerPool, now, queue, started,
                   failedInARow, lastFailureAt, lastStart>>
    /\ UNCHANGED <<workerVars, serverVars>>

\* await response.body.json() resolves with an object
BodyParses(call) ==
    /\ call.pc = "body"
    /\ \E response \in Responses(call.op) :
          /\ AfterRemote(Remove(calls, call), [call EXCEPT !.remote = Answered(response)],
                         response.body)
          /\ failedInARow' = IF Answered(response) = "result" THEN 0 ELSE failedInARow
    /\ UNCHANGED <<_consecutiveErrors, _offlineUntil, _defaultParams, _workerPool, now,
                   started, lastFailureAt, lastStart>>
    /\ UNCHANGED <<workerVars, serverVars>>

\* await response.body.json() resolves with null: reading returnValue.error throws
BodyIsNull(call) ==
    /\ call.pc = "body"
    /\ calls' = Add(Remove(calls, call), [call EXCEPT !.pc = "threw", !.remote = "null"])
    /\ UNCHANGED <<_consecutiveErrors, _offlineUntil, _defaultParams, _workerPool, now,
                   queue, started, failedInARow, lastFailureAt, lastStart>>
    /\ UNCHANGED <<workerVars, serverVars>>

\* await response.body.json() rejects: the body is not JSON, or it timed out
BodyRejects(call) ==
    /\ call.pc = "body"
    /\ RemoteFailed(call, "unreadable")

\* the jobs the pool's workers are busy with
Running == BagCardinality([call \in At("running") |-> calls[call]])

\* faulty variant: the pool keeps one of its workers in reserve
LocalStarts_OneInReserve ==
    /\ queue # <<>>
    /\ Running + 1 < _workerPool
    /\ queue' = Tail(queue)
    /\ calls' = Add(calls, [Head(queue) EXCEPT !.pc = "running"])
    /\ UNCHANGED <<_consecutiveErrors, _offlineUntil, _defaultParams, _workerPool, now,
                   started, failedInARow, lastFailureAt, lastStart>>
    /\ UNCHANGED <<workerVars, serverVars>>

\* the pool hands the oldest waiting job to a free worker
LocalStarts ==
    /\ queue # <<>>
    /\ Running < _workerPool
    /\ queue' = Tail(queue)
    /\ calls' = Add(calls, [Head(queue) EXCEPT !.pc = "running"])
    /\ UNCHANGED <<_consecutiveErrors, _offlineUntil, _defaultParams, _workerPool, now,
                   started, failedInARow, lastFailureAt, lastStart>>
    /\ UNCHANGED <<workerVars, serverVars>>

\* what the worker's hash or compare gives the call
LocalReturn(out, op) ==
    IF ~out.ok THEN WithError(out.error)
    ELSE IF op = "hash" THEN WithResult("record")
    ELSE IF out.value THEN WithResult("true")
    ELSE WithResult("false")

LocalOutcomes(call) ==
    IF call.op = "compare" THEN {compare(call.data, call.hash)}
    ELSE IF call.params.saltlen < 0 THEN {ThrownBuffer(ErrOutOfRange)}
    ELSE {hash(call.data, salt, call.params) : salt \in randomBytes(call.params.saltlen)}

\* faulty variant: a local success is taken for a success of the remote
LocalFinishes_CountsAsSuccess(call) ==
    /\ call.pc = "running"
    /\ \E out \in LocalOutcomes(call) :
          /\ calls' = Add(Remove(calls, call),
                          [call EXCEPT !.pc = "done", !.ret = LocalReturn(out, call.op)])
          /\ _consecutiveErrors' = IF out.ok THEN 0 ELSE _consecutiveErrors
    /\ UNCHANGED <<_offlineUntil, _defaultParams, _workerPool, now,
                   queue, started, failedInARow, lastFailureAt, lastStart>>
    /\ UNCHANGED <<workerVars, serverVars>>

\* await this._workerPool.exec(...) settles
LocalFinishes(call) ==
    /\ call.pc = "running"
    /\ \E out \in LocalOutcomes(call) :
          calls' = Add(Remove(calls, call),
                       [call EXCEPT !.pc = "done", !.ret = LocalReturn(out, call.op)])
    /\ UNCHANGED <<_consecutiveErrors, _offlineUntil, _defaultParams, _workerPool, now,
                   queue, started, failedInARow, lastFailureAt, lastStart>>
    /\ UNCHANGED <<workerVars, serverVars>>

\* the shape of every step in which a worker settles its job, whatever the
\* outcome: on the behaviours of the client these are the LocalFinishes steps
WorkerErrors ==
    {ErrData, ErrSaltLength, ErrCostRange, ErrCostPower, ErrBlockSize, ErrParallelization,
     ErrSaltlen, ErrKeylen, ErrDerivedLength, ErrOutOfRange, ErrHashText, ErrHashBuffer,
     ErrHashLength, ErrVersion}

JobSettles(call) ==
    /\ call.pc = "running"
    /\ \E ret \in {WithResult("record"), WithResult("true"), WithResult("false")}
                    \cup {WithError(e) : e \in WorkerErrors} :
          calls' = Add(Remove(calls, call), [call EXCEPT !.pc = "done", !.ret = ret])
    /\ UNCHANGED <<_consecutiveErrors, _offlineUntil, _defaultParams, _workerPool, now,
                   queue, started, failedInARow, lastFailureAt, lastStart>>
    /\ UNCHANGED <<workerVars, serverVars>>

\* the caller has the outcome
Returns(call) ==
    /\ call.pc \in {"done", "threw"}
    /\ calls' = Remove(calls, call)
    /\ UNCHANGED <<_consecutiveErrors, _offlineUntil, _defaultParams, _workerPool, now,
                   queue, started, failedInARow, lastFailureAt, lastStart>>
    /\ UNCHANGED <<workerVars, serverVars>>

\* time passes: to the end of the offline window, or just past it
Tick ==
    /\ \E t \in {_offlineUntil, _offlineUntil + 1} :
          /\ t > now
          /\ now' = t
    /\ UNCHANGED <<_consecutiveErrors, _offlineUntil, _defaultParams, _workerPool, calls,
                   queue, started, failedInARow, lastFailureAt, lastStart>>
    /\ UNCHANGED <<workerVars, serverVars>>

ClientConstructed(given, maxConcurrencyFallback, cores) ==
    /\ _consecutiveErrors = 0
    /\ _offlineUntil = 0
    /\ _defaultParams = ResolveParams(given, BuiltInDefaults)
    /\ _workerPool = PoolSize(maxConcurrencyFallback, cores)
    /\ now = 1
    /\ calls = EmptyBag
    /\ queue = <<>>
    /\ started = 0
    /\ failedInARow = 0
    /\ lastFailureAt = 0
    /\ lastStart = [at |-> 0, until |-> 0, sent |-> FALSE]

-----------------------------------------------------------------------------
(* ScryptServer.ts: the two routes *)

\* a field of the request body, as the handlers test it
Fields == {"data", "hash", "cost", "blockSize", "parallelization", "saltlen", "keylen"}
ParamFields == {"cost", "blockSize", "parallelization", "saltlen", "keylen"}

Missing == [kind |-> "undefined", text |-> <<>>, number |-> 0]
JsonString(s) == [kind |-> "string", text |-> s, number |-> 0]
JsonInteger(n) == [kind |-> "integer", text |-> <<>>, number |-> n]
JsonFraction == [kind |-> "fraction", text |-> <<>>, number |-> 0]

\* 'string' === typeof value, Number.isInteger( value )
IsString(value) == value.kind = "string"
IsInteger(value) == value.kind = "integer"

\* what context.req.json() gives: it throws on a text that is not JSON; null,
\* false, 0 and "" are falsy; true, other numbers and strings, and arrays are
\* truthy and have none of the fields
NoFields == [f \in Fields |-> Missing]
NotJson == [shape |-> "not JSON", fields |-> NoFields]
JsonFalsy == [shape |-> "falsy", fields |-> NoFields]
JsonOther == [shape |-> "no object", fields |-> NoFields]
JsonObject(fields) == [shape |-> "object", fields |-> fields]

Truthy(body) == body.shape \in {"no object", "object"}

\* the JSON bodies of the answers
ErrInvalidData == "Invalid or missing data"
ErrInvalidParams == "Invalid or missing params"

EmptyBody ==
    [hasError |-> FALSE, error |-> "", hasResult |-> FALSE, text |-> <<>>, bool |-> FALSE]
ErrorBody(e) == [EmptyBody EXCEPT !.hasError = TRUE, !.error = e]
ResultText(t) == [EmptyBody EXCEPT !.hasResult = TRUE, !.text = t]
ResultBool(b) == [EmptyBody EXCEPT !.hasResult = TRUE, !.bool = b]

\* context.json( returnValue[ 0 ], returnValue[ 1 ] )
Json(body, status) == [status |-> status, body |-> body]

\* ScryptServer.hash: the worker's hash on the pool
serverHash(data, params, salt) ==
    LET out == IF params.saltlen < 0 THEN ThrownBuffer(ErrOutOfRange)
               ELSE hash(data, salt, params)
    IN IF out.ok THEN ResultText(out.value) ELSE ErrorBody(out.error)

\* ScryptServer.compare: the worker's compare on the pool
serverCompare(data, hashBase64) ==
    LET out == compare(data, hashBase64)
    IN IF out.ok THEN ResultBool(out.value) ELSE ErrorBody(out.error)

BodyParams(body) ==
    ScryptParams(body.fields.cost.number, body.fields.blockSize.number,
                 body.fields.parallelization.number, body.fields.saltlen.number,
                 body.fields.keylen.number)

\* POST /hash
HashRoute(body, salt) ==
    IF body.shape = "not JSON" THEN Json(ErrorBody(ErrInvalidData), 400)
    ELSE IF ~Truthy(body) THEN Json(EmptyBody, 200)
    ELSE IF ~IsString(body.fields.data) THEN Json(ErrorBody(ErrInvalidData), 400)
    ELSE IF ~\A f \in ParamFields : IsInteger(body.fields[f])
         THEN Json(ErrorBody(ErrInvalidParams), 400)
    ELSE Json(serverHash(body.fields.data.text, BodyParams(body), salt), 200)

\* faulty variant: what the worker refuses is answered with status 400
CompareRoute_RefusalIs400(body) ==
    IF body.shape = "not JSON" THEN Json(ErrorBody(ErrInvalidData), 400)
    ELSE IF Truthy(body) /\ IsString(body.fields.data) /\ IsString(body.fields.hash)
         THEN LET answer == serverCompare(body.fields.data.text, body.fields.hash.text)
              IN Json(answer, IF answer.hasError THEN 400 ELSE 200)
    ELSE Json(ErrorBody(ErrInvalidData), 400)

\* POST /compare
CompareRoute(body) ==
    IF body.shape = "not JSON" THEN Json(ErrorBody(ErrInvalidData), 400)
    ELSE IF Truthy(body) /\ IsString(body.fields.data) /\ IsString(body.fields.hash)
         THEN Json(serverCompare(body.fields.data.text, body.fields.hash.text), 200)
    ELSE Json(ErrorBody(ErrInvalidData), 400)

\* the request bodies
WithField(fields, f, value) == [fields EXCEPT ![f] = value]

ParamsObject(params) ==
    [f \in Fields |-> IF f \in ParamFields THEN JsonInteger(params[f]) ELSE Missing]

RequestData ==
    {Missing, JsonInteger(12345), JsonString(<<>>), JsonString(<<97>>), JsonString(<<98>>),
     JsonString(Repeat(97, MaxDataLength + 1))}

RequestParams ==
    {ParamsObject(DefaultTuple), ParamsObject(MinTuple),
     ParamsObject([DefaultTuple EXCEPT !.cost = 2048]),
     ParamsObject([DefaultTuple EXCEPT !.saltlen = -1]),
     ParamsObject([DefaultTuple EXCEPT !.keylen = 15])}
    \cup {WithField(ParamsObject(DefaultTuple), f, value) :
            f \in ParamFields, value \in {Missing, JsonFraction, JsonString(<<56>>)}}

HashRequests ==
    {NotJson, JsonFalsy, JsonOther}
    \cup {JsonObject(WithField(fields, "data", data)) :
            fields \in RequestParams, data \in RequestData}

RequestHashes ==
    {Missing, JsonInteger(123)} \cup {JsonString(text) : text \in HashArguments(ClientRecord)}

CompareRequests ==
    {NotJson, JsonFalsy, JsonOther}
    \cup {JsonObject(WithField(WithField(NoFields, "data", data), "hash", value)) :
            data \in RequestData, value \in RequestHashes}

\* the salt randomBytes draws on the worker, when the request gets that far
SaltsFor(body) ==
    IF IsInteger(body.fields.saltlen) /\ body.fields.saltlen.number >= 0
    THEN randomBytes(body.fields.saltlen.number)
    ELSE {<<>>}

PostHash ==
    /\ \E body \in HashRequests : \E salt \in SaltsFor(body) :
          /\ httpRequest' = [route |-> "/hash", body |-> body]
          /\ httpResponse' = HashRoute(body, salt)
    /\ UNCHANGED <<workerVars, clientVars>>

PostCompare ==
    /\ \E body \in CompareRequests :
          /\ httpRequest' = [route |-> "/compare", body |-> body]
          /\ httpResponse' = CompareRoute(body)
    /\ UNCHANGED <<workerVars, clientVars>>

\* new ScryptServer( config ): nothing asked, nothing answered
ServerConstructed ==
    /\ httpRequest = [route |-> "none", body |-> NotJson]
    /\ httpResponse = Json(EmptyBody, 0)

-----------------------------------------------------------------------------
(* The worker as a state machine: one action per exported function *)

WorkerLoaded ==
    /\ hashData = <<>>
    /\ hashParams = DefaultTuple
    /\ hashSalt = <<>>
    /\ hashOut = NoCall
    /\ stored = <<>>
    /\ storedBy = "none"
    /\ cmpData = <<>>
    /\ cmpHash = <<>>
    /\ cmpOut = NoCompare

Init == WorkerLoaded /\ ClientConstructed(NoParams, 0, 4) /\ ServerConstructed

HashReturns(data, params, salt, out, kind) ==
    /\ hashData' = data
    /\ hashParams' = params
    /\ hashSalt' = salt
    /\ hashOut' = out
    /\ stored' = IF out.ok THEN out.value ELSE <<>>
    /\ storedBy' = kind
    /\ cmpData' = <<>>
    /\ cmpHash' = <<>>
    /\ cmpOut' = NoCompare
    /\ UNCHANGED <<clientVars, serverVars>>

\* hash( data, params ): randomBytes throws on a negative size
Hash ==
    /\ hashOut = NoCall
    /\ \E data \in DataValues, params \in ParamTuples :
        IF params.saltlen < 0
        THEN HashReturns(data, params, <<>>, ThrownBuffer(ErrOutOfRange), "v2")
        ELSE \E salt \in randomBytes(params.saltlen) :
                HashReturns(data, params, salt, hash(data, salt, params), "v2")

\* a record written by the V1 worker before the upgrade
StoreLegacyRecord ==
    /\ hashOut = NoCall
    /\ \E data \in DataValues \ {<<>>}, params \in LegacyParamTuples :
        \E salt \in randomBytes(params.saltlen) :
            HashReturns(data, params, salt, LegacyHash(data, salt, params), "v1")

\* compare( data, hashBase64 )
Compare ==
    /\ cmpOut = NoCompare
    /\ \E data \in DataValues, text \in HashArguments(stored) :
          /\ \/ text = stored
             \/ data \in {hashData, <<>>, Repeat(97, MaxDataLength + 1)}
          /\ cmpData' = data
          /\ cmpHash' = text
          /\ cmpOut' = compare(data, text)
    /\ UNCHANGED <<hashData, hashParams, hashSalt, hashOut, stored, storedBy>>
    /\ UNCHANGED <<clientVars, serverVars>>

\* the caller drops the record and starts over with a fresh call
Discard ==
    /\ hashOut # NoCall
    /\ hashData' = <<>>
    /\ hashParams' = DefaultTuple
    /\ hashSalt' = <<>>
    /\ hashOut' = NoCall
    /\ stored' = <<>>
    /\ storedBy' = "none"
    /\ cmpData' = <<>>
    /\ cmpHash' = <<>>
    /\ cmpOut' = NoCompare
    /\ UNCHANGED <<clientVars, serverVars>>

Next == Hash \/ StoreLegacyRecord \/ Compare \/ Discard

Spec == Init /\ [][Next]_vars

\* the client: any constructor arguments, then calls, answers and time
InitClient ==
    /\ WorkerLoaded
    /\ ServerConstructed
    /\ \E new \in Constructions :
          ClientConstructed(new.given, new.maxConcurrencyFallback, new.cores)

NextClient ==
    \/ StartHash
    \/ StartCompare
    \/ \E call \in At("request") : RequestRejects(call)
    \/ \E call \in At("request") : ResponseArrives(call)
    \/ \E call \in At("body") : BodyParses(call)
    \/ \E call \in At("body") : BodyIsNull(call)
    \/ \E call \in At("body") : BodyRejects(call)
    \/ LocalStarts
    \/ \E call \in At("running") : LocalFinishes(call)
    \/ \E call \in BagToSet(calls) : Returns(call)
    \/ Tick

SpecClient == InitClient /\ [][NextClient]_vars

\* the client in front of a service that cannot be reached: every request is
\* rejected, within the agent's connect timeout; the pool starts a waiting
\* job when a worker is free and a worker settles the job it runs
NextUnreachable ==
    \/ StartHash
    \/ StartCompare
    \/ \E call \in At("request") : RequestRejects(call)
    \/ LocalStarts
    \/ \E call \in At("running") : LocalFinishes(call)
    \/ \E call \in BagToSet(calls) : Returns(call)
    \/ Tick

SpecUnreachable ==
    /\ InitClient
    /\ [][NextUnreachable]_vars
    /\ WF_vars(\E call \in At("request") : RequestRejects(call))
    /\ WF_vars(LocalStarts)
    /\ WF_vars(\E call \in At("running") : JobSettles(call))

\* records that did not come from hash: any three header bytes after the
\* version byte, then as many bytes as the layout says the header announces
\* (bytes 4.., documented at the top of Worker.ts)
HeaderTriples ==
    {<<b, 0, 0>> : b \in 0..255} \cup {<<0, b, 0>> : b \in 0..255}
    \cup {<<0, 0, b>> : b \in 0..255}
    \cup {<<a, b, c>> : a \in {0, 115, 255}, b \in {0, 68, 255}, c \in {0, 16, 255}}

ForgedRecord(h) ==
    <<BINARY_VERSION, h[1], h[2], h[3]>> \o Repeat(7, ((h[2] % 32) + 16) + (h[3] + 16))

\* compare( data, hashBase64 ) on such a record, by a caller that keeps none
CompareForged ==
    /\ hashOut = NoCall
    /\ cmpOut = NoCompare
    /\ \E h \in HeaderTriples :
          /\ cmpData' = <<97>>
          /\ cmpHash' = toBase64(ForgedRecord(h))
          /\ cmpOut' = compare(<<97>>, toBase64(ForgedRecord(h)))
    /\ UNCHANGED <<hashData, hashParams, hashSalt, hashOut, stored, storedBy>>
    /\ UNCHANGED <<clientVars, serverVars>>

\* hash( data, params ) by a caller that has compared nothing yet
HashFirst == cmpOut = NoCompare /\ Hash

NextHeaders == HashFirst \/ CompareForged \/ Discard

SpecHeaders == Init /\ [][NextHeaders]_vars

\* the server: one POST after another
NextServer == PostHash \/ PostCompare

SpecServer == Init /\ [][NextServer]_vars

-----------------------------------------------------------------------------
(* Vocabulary of the properties *)

\* the V2 bounds as the documentation states them
IsValidCost(c) == \E e \in 12..19 : Pow2(e) = c
IsValidParams(p) ==
    /\ IsValidCost(p.cost)
    /\ p.blockSize \in 1..16
    /\ p.parallelization \in 1..16
    /\ p.saltlen \in 16..47
    /\ p.keylen \in 16..271
IsValidData(d) == Len(d) \in 1..2048

HashCalled == storedBy = "v2"
HashSucceeded == storedBy = "v2" /\ hashOut.ok
LegacyRecordStored == storedBy = "v1" /\ hashOut.ok
CompareCalled == cmpOut # NoCompare
ComparedWithRecord == CompareCalled /\ cmpHash = stored
\* the buffer compare decodes, when the text passes the base64 check
ComparedBuffer == fromBase64(cmpHash)
DecodeReached == CompareCalled /\ IsValidData(cmpData) /\ IsBase64Text(cmpHash)

IsInvalidCostError(e) == e \in {ErrCostRange, ErrCostPower}
IsBooleanResult(out) == out.ok

C2_LegacyRecordVerifies ==
    (LegacyRecordStored /\ ComparedWithRecord /\ cmpData = hashData) =>
        cmpOut = Returned(TRUE)

\* C3: compare of a different data of 1..2048 characters with the record of
\* hash returns false, a boolean, when the primitive gives the two data
\* different keys.
KeyFor(data) ==
    scryptSync(data, hashSalt, hashParams.keylen, hashParams.cost,
               hashParams.blockSize, hashParams.parallelization)

C3_OtherDataIsFalse ==
    (/\ HashSucceeded
     /\ ComparedWithRecord
     /\ IsValidData(cmpData)
     /\ cmpData # hashData
     /\ KeyFor(cmpData) # KeyFor(hashData)) => cmpOut = Returned(FALSE)

C3_Witness ==
    /\ HashSucceeded
    /\ ComparedWithRecord
    /\ Len(cmpData) = Len(hashData)
    /\ cmpData # hashData
    /\ KeyFor(cmpData) # KeyFor(hashData)
    /\ cmpOut = Returned(FALSE)

\* C4: hash succeeds exactly when the data and the five parameters are inside
\* their bounds, and a single value just outside a bound is rejected with the
\* error of that parameter.
OthersValid(p, field) ==
    /\ IsValidData(hashData)
    /\ field = "cost" \/ IsValidCost(p.cost)
    /\ field = "blockSize" \/ p.blockSize \in 1..16
    /\ field = "parallelization" \/ p.parallelization \in 1..16
    /\ field = "saltlen" \/ p.saltlen \in 16..47
    /\ field = "keylen" \/ p.keylen \in 16..271

C5_HashEmitsCurrentFormat ==
    HashSucceeded =>
        /\ IsBase64Text(hashOut.value)
        /\ fromBase64(hashOut.value)[1] = 2
        /\ Len(fromBase64(hashOut.value)) = 4 + hashParams.saltlen + hashParams.keylen

C5_Witness ==
    /\ HashSucceeded
    /\ hashParams.saltlen = 47
    /\ hashParams.keylen = 271
    /\ Len(fromBase64(hashOut.value)) = 322

\* C6: bytes 1..3 of the record are ((blockSize-1) << 4) | (parallelization-1),
\* ((log2(cost)-12) << 5) | (saltLen-16) and keyLen-16, each in 0..255, the
\* fields not overlapping; the documented tuple gives 0x73, 0x44, 16 and the
\* all-minimum tuple 0, 0, 0.
C6_HeaderBytes ==
    HashSucceeded =>
        LET buf == fromBase64(hashOut.value)
            p == hashParams
        IN /\ buf[2] \in 0..255 /\ buf[3] \in 0..255 /\ buf[4] \in 0..255
           /\ buf[2] \div 16 = p.blockSize - 1
           /\ buf[2] % 16 = p.parallelization - 1
           /\ \E e \in 12..19 : Pow2(e) = p.cost /\ buf[3] \div 32 = e - 12
           /\ buf[3] % 32 = p.saltlen - 16
           /\ buf[4] = p.keylen - 16
           /\ p = DefaultTuple => (buf[2] = 115 /\ buf[3] = 68 /\ buf[4] = 16)
           /\ p = MinTuple => (buf[2] = 0 /\ buf[3] = 0 /\ buf[4] = 0)

C6_Witness ==
    /\ HashSucceeded
    /\ hashParams = DefaultTuple
    /\ fromBase64(hashOut.value)[2] = 115

\* C7 (as claimed): decoding any non-empty buffer whose byte 0 is neither 0x01
\* nor 0x02 fails with 'Unsupported binary version'.
C7_AnyNonEmptyBufferUnsupported ==
    (/\ DecodeReached
     /\ Len(ComparedBuffer) >= 1
     /\ ComparedBuffer[1] \notin {1, 2}) => cmpOut = ThrownBool(ErrVersion)

\* C7 (amended): a buffer of 7 bytes or more whose byte 0 is neither 0x01 nor
\* 0x02 fails with 'Unsupported binary version'; a non-empty buffer of 6 bytes
\* or fewer fails with 'Missing or invalid hash buffer' whatever its byte 0;
\* neither returns a boolean.
C7_UnsupportedVersion ==
    (/\ DecodeReached
     /\ Len(ComparedBuffer) >= 1
     /\ ComparedBuffer[1] \notin {1, 2}) =>
        /\ ~IsBooleanResult(cmpOut)
        /\ Len(ComparedBuffer) >= 7 => cmpOut = ThrownBool(ErrVersion)
        /\ Len(ComparedBuffer) <= 6 => cmpOut = ThrownBool(ErrHashBuffer)

C7_Witness ==
    /\ DecodeReached
    /\ Len(ComparedBuffer) > 7
    /\ ComparedBuffer[1] = 3
    /\ cmpOut = ThrownBool(ErrVersion)

\* C8 (as claimed): with a recognised version byte, a buffer shorter than the
\* header of its version (4 bytes for V2, 6 for V1) fails with 'Missing or
\* invalid hash buffer', and a buffer holding a full header whose length
\* differs from header + saltLen + keyLen fails with 'Invalid hash buffer
\* length'.
HeaderLengthOf(buf) == IF buf[1] = 1 THEN 6 ELSE 4
DeclaredLengthOf(buf) ==
    IF buf[1] = 1 THEN 6 + buf[5] + buf[6]
    ELSE 4 + ((buf[3] % 32) + 16) + (buf[4] + 16)

C8_TruncatedBelowHeader ==
    (/\ DecodeReached
     /\ Len(ComparedBuffer) >= 1
     /\ ComparedBuffer[1] \in {1, 2}) =>
        /\ Len(ComparedBuffer) < HeaderLengthOf(ComparedBuffer)
              => cmpOut = ThrownBool(ErrHashBuffer)
        /\ (Len(ComparedBuffer) >= HeaderLengthOf(ComparedBuffer)
              /\ Len(ComparedBuffer) # DeclaredLengthOf(ComparedBuffer))
              => cmpOut = ThrownBool(ErrHashLength)

\* C8 (amended): with a recognised version byte, a buffer of fewer than 7
\* bytes fails with 'Missing or invalid hash buffer', and a buffer of 7 bytes
\* or more whose length differs from header + saltLen + keyLen, in either
\* direction, fails with 'Invalid hash buffer length'; such a record never
\* reaches the key derivation.
C8_TruncatedOrLengthMismatch ==
    (/\ DecodeReached
     /\ Len(ComparedBuffer) >= 1
     /\ ComparedBuffer[1] \in {1, 2}) =>
        /\ Len(ComparedBuffer) < 7 => cmpOut = ThrownBool(ErrHashBuffer)
        /\ (Len(ComparedBuffer) >= 7
              /\ Len(ComparedBuffer) # DeclaredLengthOf(ComparedBuffer))
              => cmpOut = ThrownBool(ErrHashLength)

C8_Witness ==
    /\ DecodeReached
    /\ Len(ComparedBuffer) >= 7
    /\ ComparedBuffer[1] = 2
    /\ Len(ComparedBuffer) = DeclaredLengthOf(ComparedBuffer) + 1
    /\ cmpOut = ThrownBool(ErrHashLength)

\* C9: compare checks the data first: with data of length 0 or above 2048 it
\* fails with 'Missing, invalid or too much data' whatever the hash argument.
C9_DataCheckedFirst ==
    (CompareCalled /\ ~IsValidData(cmpData)) => cmpOut = ThrownBool(ErrData)

C9_Witness ==
    /\ CompareCalled
    /\ Len(cmpData) = MaxDataLength + 1
    /\ ~IsBase64Text(cmpHash)
    /\ cmpOut = ThrownBool(ErrData)

\* C10 (as claimed): after the n-th consecutive failed remote attempt, counted
\* since the last attempt that succeeded, offlineUntil is the time of that
\* failure plus min(300000 ms, n * 5000 ms).
C10_BackoffAfterNthFailure ==
    failedInARow > 0 =>
        _offlineUntil = lastFailureAt + Min(300000, failedInARow * 5000)

\* C11 (as claimed): the client starts Online with consecutiveErrors = 0, and
\* a remote attempt that succeeds leaves consecutiveErrors at 0, so that the
\* first failure after it yields a 5 s window: as long as no attempt has
\* failed since the construction or since the last attempt answered with a
\* result, the counter is 0.
C11_SuccessResetsCounter ==
    /\ started = 0 => (_consecutiveErrors = 0 /\ RemoteAllowed)
    /\ failedInARow = 0 => _consecutiveErrors = 0

\* the calls awaiting the service, and the copies of one call record
Waiting == BagCardinality([call \in At("request") \cup At("body") |-> calls[call]])
Copies(call) == CopiesIn(call, calls) + Cardinality({i \in DOMAIN queue : queue[i] = call})
Known == BagToSet(calls) \cup {queue[i] : i \in DOMAIN queue}

\* a step in which a remote attempt ends in one of the given ways
AttemptEnds(ways) ==
    /\ Waiting' < Waiting
    /\ \E call \in Known' :
          /\ call.pc \in {"done", "queued", "threw"}
          /\ call.remote \in ways
          /\ Copies(call)' > Copies(call)

\* C12 (as claimed): a remote attempt counts as a failure when the transport
\* fails and also when the service answers with an HTTP error status or with
\* a JSON body carrying error: the step that ends the attempt increments
\* consecutiveErrors by one and sets offlineUntil, so the client is offline.
C12_NonSuccessCountsAsFailure ==
    [][AttemptEnds({"rejected", "unreadable", "error", "refused"}) =>
          /\ _consecutiveErrors' = _consecutiveErrors + 1
          /\ _offlineUntil' = now + Min(_maxBackoff, _consecutiveErrors' * _backoffIncrement)
          /\ ~RemoteAllowed']_vars

\* C13: a call attempts the remote service if and only if now > offlineUntil
\* when it starts.  While now <= offlineUntil, the equality included, no
\* request is sent and the call carries 'Service is currently offline' (which
\* is what it returns when there is no pool to recompute it); a call that
\* starts after the window has passed sends a request.
C13_RemoteIffWindowPassed ==
    /\ started > 0 => (lastStart.sent <=> lastStart.at > lastStart.until)
    /\ \A call \in Known :
          /\ call.pc \in {"request", "body"} => call.remote = "none"
          /\ call.remote = "skipped" =>
                IF _workerPool = 0
                THEN call.pc = "done" /\ call.ret = WithError(OfflineMessage)
                ELSE call.pc \in {"queued", "running", "done"}

\* a call that began exactly at the end of a window and was not sent
C13_Witness ==
    /\ lastStart.until > 0
    /\ lastStart.at = lastStart.until
    /\ ~lastStart.sent
    /\ \E call \in Known : call.remote = "skipped" /\ call.ret = WithError(OfflineMessage)

\* the ways a remote attempt fails or is skipped
NotReached == {"skipped", "rejected", "unreadable"}

\* the final parameters of a hash call: each field the caller gave, else the
\* client's default
IsFinalParamsOf(params, given) ==
    \A f \in {"cost", "blockSize", "parallelization", "saltlen", "keylen"} :
        params[f] = IF f \in DOMAIN given THEN given[f] ELSE _defaultParams[f]

\* C14: with a local pool, every call whose remote attempt failed or was
\* skipped goes to the pool with its data and its final parameters, and what
\* the caller gets is the local outcome only, never the transport or offline
\* error: a hash() with valid input returns a result and no error, one with
\* invalid data the worker's error.
C14_FallbackReplacesRemoteError ==
    _workerPool > 0 =>
        \A call \in Known :
            call.remote \in NotReached =>
                /\ call.pc \in {"queued", "running", "done"}
                /\ call.op = "hash" =>
                      \E args \in HashCalls :
                          call.data = args[1] /\ IsFinalParamsOf(call.params, args[2])
                /\ call.pc = "done" =>
                      /\ call.ret.error \notin {OfflineMessage, TransportMessage}
                      /\ (call.op = "hash" /\ IsValidData(call.data)
                              /\ IsValidParams(call.params))
                            => call.ret = WithResult("record")
                      /\ (call.op = "hash" /\ ~IsValidData(call.data))
                            => call.ret = WithError(ErrData)
                      /\ (call.op = "compare" /\ call.hash = ClientRecord
                              /\ call.data = <<97>>)
                            => call.ret = WithResult("true")

\* a hash() whose request was refused has returned the locally computed record
C14_Witness ==
    /\ _workerPool > 0
    /\ \E call \in At("done") :
          /\ call.op = "hash"
          /\ call.remote = "rejected"
          /\ call.ret = WithResult("record")

\* C15: with maxConcurrencyFallback = 0 there is no pool, whatever the
\* machine, and a call whose remote attempt failed or was skipped returns
\* with error set (the transport error, or 'Service is currently offline')
\* and no result; nothing is ever queued or run locally.
C15_NoPoolReturnsTheError ==
    /\ \A cores \in 0..8 : PoolSize(0, cores) = 0
    /\ _workerPool = 0 =>
          /\ queue = <<>>
          /\ At("running") = {}
          /\ \A call \in Known :
                call.remote \in NotReached =>
                    /\ call.pc = "done"
                    /\ call.ret.result = "undefined"
                    /\ call.ret.error = IF call.remote = "skipped"
                                        THEN OfflineMessage ELSE TransportMessage

\* without a pool, a hash() whose request was refused has returned the error
C15_Witness ==
    /\ _workerPool = 0
    /\ \E call \in At("done") :
          /\ call.op = "hash"
          /\ call.remote = "rejected"
          /\ call.ret = WithError(TransportMessage)

\* the service answered with a JSON body carrying error
ErrorAnswers == {"error", "refused"}

\* C16 (as claimed): fallback is triggered only by transport-class errors and
\* skipped attempts; an error that the service reports in its JSON body is
\* returned verbatim and the call is not recomputed on the local pool.
C16_ServiceErrorReturnedVerbatim ==
    \A call \in Known :
        call.remote \in ErrorAnswers =>
            call.pc = "done" /\ call.ret = WithError(ServerErrorMessage)

\* C16 (amended): fallback is triggered by every error the call carries after
\* the remote attempt, the one in the service's JSON body included.  With a
\* pool such a call is recomputed locally and returns the local outcome, the
\* service's error being discarded; only without a pool is the service's
\* error returned verbatim.  An answer carrying a result is returned as it is.
C16_ServiceErrorAlsoFallsBack ==
    \A call \in Known :
        /\ call.remote \in ErrorAnswers =>
              IF _workerPool = 0
              THEN call.pc = "done" /\ call.ret = WithError(ServerErrorMessage)
              ELSE /\ call.pc \in {"queued", "running", "done"}
                   /\ call.pc = "done" =>
                         /\ call.ret.error # ServerErrorMessage
                         /\ (call.op = "hash" /\ IsValidData(call.data))
                               => call.ret = WithResult("record")
                         /\ (call.op = "hash" /\ ~IsValidData(call.data))
                               => call.ret = WithError(ErrData)
                         /\ call.op = "compare" => call.ret = WithResult("true")
        /\ call.remote = "result" =>
              /\ call.pc = "done"
              /\ call.ret = WithResult(IF call.op = "hash" THEN "record" ELSE "true")

\* the service refused a hash() with an error and the pool computed the record
C16_Witness ==
    /\ _workerPool > 0
    /\ \E call \in At("done") :
          /\ call.op = "hash"
          /\ call.remote \in ErrorAnswers
          /\ call.ret = WithResult("record")

\* hash() calls with valid input: those that have not returned yet, and those
\* that have a result and no error
IsValidHashCall(call) ==
    call.op = "hash" /\ IsValidData(call.data) /\ IsValidParams(call.params)
Count(set) ==
    BagCardinality([call \in set \cap BagToSet(calls) |-> calls[call]])
        + Cardinality({i \in DOMAIN queue : queue[i] \in set})
Pending ==
    Count({call \in Known : IsValidHashCall(call) /\ call.pc \notin {"done", "threw"}})
Succeeded ==
    Count({call \in Known : IsValidHashCall(call) /\ call.pc = "done"
                                /\ call.ret = WithResult("record")})

\* C17: with an unreachable remote and a pool of k >= 1 workers, concurrent
\* hash() calls with valid input, more of them than workers, all eventually
\* return a result without error: a job beyond the worker limit waits in the
\* queue, at most k jobs run at once, a call leaves the pending ones only by
\* returning its result (none is rejected or lost), and pending calls do not
\* stay pending.
C17_QueuedCallsAllComplete ==
    /\ [](_workerPool > 0 =>
            /\ Running <= _workerPool
            /\ \A call \in At("done") : IsValidHashCall(call) =>
                                            call.ret = WithResult("record"))
    /\ [][(_workerPool > 0 /\ Pending' < Pending) =>
            (Pending' = Pending - 1 /\ Succeeded' = Succeeded + 1)]_vars
    /\ (_workerPool > 0 /\ Pending > 0) ~> (Pending = 0)

\* more calls than workers: one runs, another waits in the queue
C17_Witness ==
    /\ _workerPool > 0
    /\ Running = _workerPool
    /\ \E call \in At("running") : IsValidHashCall(call)
    /\ queue # <<>>
    /\ IsValidHashCall(Head(queue))
    /\ Pending > _workerPool

\* C18 (as claimed): every call to the client's hash() or compare() completes
\* by returning an object that carries result or error, never by throwing,
\* whatever the remote attempt gave (a transport error, a timeout, any HTTP
\* status, a body that is not JSON, any JSON value as body) and whatever the
\* local computation gave.
C18_AlwaysReturnsAnObject ==
    \A call \in Known :
        /\ call.pc # "threw"
        /\ call.pc = "done" =>
              (call.ret.error # "undefined" \/ call.ret.result # "undefined")


-----------------------------------------------------------------------------
(* The HTTP routes *)

Asked(route) == httpRequest.route = route

\* a response of the 400 shape: a non-empty error and nothing else
IsRefusal(response) ==
    /\ response.status = 400
    /\ response.body.hasError /\ response.body.error # ""
    /\ ~response.body.hasResult

\* a response of the 200 shape: a result or an error, not both, not neither
IsAnswer(response) ==
    /\ response.status = 200
    /\ response.body.hasResult # response.body.hasError
    /\ response.body.hasError => response.body.error # ""

IsWellFormedHashRequest(body) ==
    /\ body.shape = "object"
    /\ IsString(body.fields.data)
    /\ \A f \in ParamFields : IsInteger(body.fields[f])

IsWellFormedCompareRequest(body) ==
    /\ body.shape = "object"
    /\ IsString(body.fields.data)
    /\ IsString(body.fields.hash)

\* C19: every POST /hash is answered with status 400 and a non-empty error when
\* the body is not JSON, is not an object, has no string data or has a
\* parameter that is not an integer, and otherwise with status 200 and exactly
\* one of a base64 result or an error; no body is answered with neither
C19_HashRouteShapes ==
    Asked("/hash") =>
        /\ ~IsWellFormedHashRequest(httpRequest.body) => IsRefusal(httpResponse)
        /\ IsWellFormedHashRequest(httpRequest.body) =>
              /\ IsAnswer(httpResponse)
              /\ httpResponse.body.hasResult =>
                    /\ httpResponse.body.text # <<>>
                    /\ IsBase64Text(httpResponse.body.text)
        /\ httpResponse.body.hasResult \/ httpResponse.body.hasError

\* the hashes made from the kept record by damaging its text or its bytes
CorruptedRecords ==
    (DamagedTexts(ClientRecord)
        \cup { toBase64(b) : b \in DamagedBuffers(fromBase64(ClientRecord)) })
    \ {ClientRecord}

\* a text that no longer decodes to a record: not base64, shorter than a
\* header and one byte, of an unknown version, or of another length than its
\* header says
IsUndecodable(text) ==
    \/ text = <<>>
    \/ ~IsBase64Text(text)
    \/ LET buf == fromBase64(text)
       IN \/ Len(buf) < 7
          \/ buf[1] \notin {1, 2}
          \/ Len(buf) # DeclaredLengthOf(buf)

ComparedShapes ==
    /\ ~IsWellFormedCompareRequest(httpRequest.body) => IsRefusal(httpResponse)
    /\ IsWellFormedCompareRequest(httpRequest.body) => IsAnswer(httpResponse)

\* C20 as stated: every POST /compare is answered with status 400 and a
\* non-empty error when the body is not JSON or data or hash is missing or not
\* a string, and otherwise with status 200 and exactly one of a boolean result
\* or an error; a corrupted hash in a well-formed request is an error at
\* status 200, never a result
C20_CorruptedHashIsAnError ==
    Asked("/compare") =>
        /\ ComparedShapes
        /\ (/\ IsWellFormedCompareRequest(httpRequest.body)
            /\ httpRequest.body.fields.hash.text \in CorruptedRecords) =>
              /\ httpResponse.status = 200
              /\ httpResponse.body.hasError
              /\ ~httpResponse.body.hasResult

\* C20: the shapes are as stated; a hash that no longer decodes to a record is
\* an error at status 200, never a 400 and never a result, while a version 2
\* record that still decodes and differs from the kept one in its salt or key
\* bytes only is answered with result false at status 200
C20_UndecodableHashIsAnError ==
    Asked("/compare") =>
        /\ ComparedShapes
        /\ (/\ IsWellFormedCompareRequest(httpRequest.body)
            /\ IsUndecodable(httpRequest.body.fields.hash.text)) =>
              /\ httpResponse.status = 200
              /\ httpResponse.body.hasError
              /\ ~httpResponse.body.hasResult
        /\ (/\ IsWellFormedCompareRequest(httpRequest.body)
            /\ IsValidData(httpRequest.body.fields.data.text)
            /\ httpRequest.body.fields.hash.text \in CorruptedRecords
            /\ ~IsUndecodable(httpRequest.body.fields.hash.text)
            /\ fromBase64(httpRequest.body.fields.hash.text)[1] = BINARY_VERSION
            /\ Prefix(fromBase64(httpRequest.body.fields.hash.text), HeaderLengthV2)
                  = Prefix(fromBase64(ClientRecord), HeaderLengthV2)) =>
              httpResponse = Json(ResultBool(FALSE), 200)

\* a record with its last key byte altered was compared and answered with
\* result false, and so was a text that is not base64 with an error at 200
C20_Witness ==
    /\ Asked("/compare")
    /\ IsWellFormedCompareRequest(httpRequest.body)
    /\ IsValidData(httpRequest.body.fields.data.text)
    /\ httpRequest.body.fields.hash.text \in CorruptedRecords
    /\ \/ /\ IsUndecodable(httpRequest.body.fields.hash.text)
          /\ httpResponse = Json(ErrorBody(ErrHashText), 200)
       \/ /\ ~IsUndecodable(httpRequest.body.fields.hash.text)
          /\ httpResponse = Json(ResultBool(FALSE), 200)


-----------------------------------------------------------------------------
(* Two runs of hash *)

\* the record another run of hash on the same data and parameters returns
\* when randomBytes draws salt
OtherRun(salt) ==
    LET out == hash(hashData, salt, hashParams)
    IN IF out.ok THEN Returned(SubSeq(out.value, 1, Len(out.value))) ELSE out

HeaderOf(text) == Prefix(fromBase64(text), HeaderLengthV2)
BodyOf(text) == SubSeq(fromBase64(text), HeaderLengthV2 + 1, Len(fromBase64(text)))

\* C21: two runs of hash with the same data and parameters return records with
\* the same 4 header bytes and, when the salts drawn differ, different
\* remaining bytes; both records verify against the data (stated of the state
\* hash returned in, before the caller goes on to compare)
C21_SameHeaderOtherSalt ==
    (HashSucceeded /\ ~CompareCalled) =>
        /\ compare(hashData, hashOut.value) = Returned(TRUE)
        /\ \A salt \in randomBytes(hashParams.saltlen) :
            /\ OtherRun(salt).ok
            /\ HeaderOf(OtherRun(salt).value) = HeaderOf(hashOut.value)
            /\ salt # hashSalt => BodyOf(OtherRun(salt).value) # BodyOf(hashOut.value)
            /\ compare(hashData, OtherRun(salt).value) = Returned(TRUE)

C21_Witness ==
    /\ HashSucceeded
    /\ hashParams = DefaultTuple
    /\ \E salt \in randomBytes(hashParams.saltlen) :
          /\ salt # hashSalt
          /\ OtherRun(salt).value # hashOut.value
          /\ HeaderOf(OtherRun(salt).value) = HeaderOf(hashOut.value)
          /\ compare(hashData, OtherRun(salt).value) = Returned(TRUE)


-----------------------------------------------------------------------------
(* The parameters of a call *)

\* the value the documentation gives a field: the call's, else the
\* constructor's, else the built-in default
Resolved(f, ofCall, ofConstructor) ==
    IF f \in DOMAIN ofCall THEN ofCall[f]
    ELSE IF f \in DOMAIN ofConstructor THEN ofConstructor[f]
    ELSE CASE f = "cost" -> 16384
           [] f = "blockSize" -> 8
           [] f = "parallelization" -> 1
           [] f = "saltlen" -> 16
           [] f = "keylen" -> 32

RemoteAttempted(call) ==
    call.pc \in {"request", "body"} \/ call.remote \notin {"none", "skipped"}

\* C22: the parameters of a hash call are, field by field, the value given in
\* the call, else the value given to the constructor, else the built-in
\* default; the body sent to the remote carries that tuple and the local
\* fallback works on the same one
C22_ParamsResolvedFieldByField ==
    \E new \in Constructions :
        /\ \A f \in ParamFields : _defaultParams[f] = Resolved(f, NoParams, new.given)
        /\ \A call \in Known :
              call.op = "hash" =>
                 \E args \in HashCalls :
                    /\ call.data = args[1]
                    /\ \A f \in ParamFields :
                          call.params[f] = Resolved(f, args[2], new.given)
                    /\ RemoteAttempted(call) => call.sent = call.params
                    /\ (call.pc = "done" /\ call.remote \in NotReached /\ _workerPool > 0) =>
                          call.ret \in {LocalReturn(out, "hash") :
                                          out \in LocalOutcomes([call EXCEPT !.params =
                                              [f \in ParamFields |->
                                                  Resolved(f, args[2], new.given)]])}

\* a call that gave the cost only, on a client constructed with a cost and a
\* keylen, went to the remote, failed there and was computed locally
C22_Witness ==
    /\ _defaultParams = ScryptParams(8192, 8, 1, 16, 16)
    /\ \E call \in At("done") :
          /\ call.op = "hash"
          /\ call.params = ScryptParams(4096, 8, 1, 16, 16)
          /\ call.sent = call.params
          /\ call.remote = "rejected"
          /\ call.ret = WithError(ErrData)


-----------------------------------------------------------------------------
(* The order of the checks in hash *)

\* C23: hash reports the error of the first failing check in the order data
\* length, cost, blockSize, parallelization, saltLen, keyLen: data that is
\* empty or too long gives 'Missing, invalid or too much data' whatever the
\* parameters are, a negative saltLen included, and an invalid cost is
\* reported before an invalid saltLen or keyLen
C23_FirstFailingCheckReported ==
    HashCalled =>
        LET p == hashParams IN
        /\ ~IsValidData(hashData) => hashOut = ThrownBuffer(ErrData)
        /\ (IsValidData(hashData) /\ ~IsValidCost(p.cost))
              => (~hashOut.ok /\ IsInvalidCostError(hashOut.error))
        /\ (IsValidData(hashData) /\ IsValidCost(p.cost) /\ p.blockSize \notin 1..16)
              => hashOut = ThrownBuffer(ErrBlockSize)
        /\ (IsValidData(hashData) /\ IsValidCost(p.cost) /\ p.blockSize \in 1..16
              /\ p.parallelization \notin 1..16)
              => hashOut = ThrownBuffer(ErrParallelization)
        /\ (IsValidData(hashData) /\ IsValidCost(p.cost) /\ p.blockSize \in 1..16
              /\ p.parallelization \in 1..16 /\ p.saltlen \notin 16..47)
              => hashOut = ThrownBuffer(ErrSaltlen)
        /\ (IsValidData(hashData) /\ IsValidCost(p.cost) /\ p.blockSize \in 1..16
              /\ p.parallelization \in 1..16 /\ p.saltlen \in 16..47
              /\ p.keylen \notin 16..271)
              => hashOut = ThrownBuffer(ErrKeylen)

\* the same order when randomBytes accepts the size it is asked for
C23_OrderWhenSaltlenNotNegative ==
    (HashCalled /\ hashParams.saltlen >= 0) => C23_FirstFailingCheckReported


-----------------------------------------------------------------------------
(* Stored records and the current bounds *)

ParameterErrors ==
    {ErrCostRange, ErrCostPower, ErrBlockSize, ErrParallelization, ErrSaltlen, ErrKeylen}

\* C24: compare does not hold a stored record to the V2 bounds: for a V1
\* record of consistent length whose parameters are valid under the V1 bounds
\* and outside the V2 bounds (cost 1024 or 2048, saltLen or keyLen up to 255)
\* it derives the key again and returns a boolean, never a parameter error
C24_StoredRecordBypassesBounds ==
    (/\ LegacyRecordStored
     /\ ~IsValidParams(hashParams)
     /\ ComparedWithRecord
     /\ IsValidData(cmpData)) =>
        /\ IsBooleanResult(cmpOut)
        /\ cmpOut.error \notin ParameterErrors


-----------------------------------------------------------------------------
(* The key derivation is reached after the checks only *)

HashDerivations == _hashDerivations(hashData, hashSalt, hashParams)
CompareDerivations == compareDerivations(cmpData, cmpHash)

IsValidatedDerivation(d) ==
    /\ IsValidData(d.data)
    /\ Len(d.salt) = d.params.saltlen
    /\ IsValidParams(d.params)

\* C25: hash and compare call the key derivation at most once, and only with
\* data of 1..2048 characters, a salt of saltLen bytes and parameters inside
\* the bounds; a call that fails a check does not reach it, a call that
\* returns a record or a boolean from the comparison has made it
C25_DerivationAfterValidation ==
    /\ HashCalled =>
          /\ Len(HashDerivations) <= 1
          /\ \A i \in DOMAIN HashDerivations : IsValidatedDerivation(HashDerivations[i])
          /\ hashOut.ok => Len(HashDerivations) = 1
          /\ hashOut.error \in ParameterErrors \cup {ErrData, ErrSaltLength}
                => HashDerivations = <<>>
    /\ CompareCalled =>
          /\ Len(CompareDerivations) <= 1
          /\ \A i \in DOMAIN CompareDerivations :
                IsValidatedDerivation(CompareDerivations[i])
          /\ cmpOut.ok => Len(CompareDerivations) = 1
          /\ ~cmpOut.ok => CompareDerivations = <<>>

C25_Witness ==
    /\ HashSucceeded
    /\ Len(HashDerivations) = 1
    /\ CompareCalled
    /\ cmpHash = stored
    /\ Len(CompareDerivations) = 1
    /\ CompareDerivations[1].salt = hashSalt
    /\ CompareDerivations[1].params = hashParams


-----------------------------------------------------------------------------
(* The writes of one remote attempt *)

AttemptOver(call) == call.remote \notin {"none", "skipped"}

\* C26: under any interleaving of calls, a remote attempt changes the backoff
\* state exactly once: one reset of consecutiveErrors to 0, or one increment
\* of it with one assignment of offlineUntil, never both
C26_OneUpdatePerAttempt ==
    \A call \in Known :
        /\ Len(call.updates) <= 1
        /\ AttemptOver(call) => Len(call.updates) = 1


-----------------------------------------------------------------------------
(* Online after a success *)

\* C27: under any interleaving of calls, right after a remote attempt
\* succeeds consecutiveErrors is 0 and a call started at once attempts the
\* remote; the client is never offline with consecutiveErrors = 0
C27_OnlineAfterSuccess ==
    /\ [](_consecutiveErrors = 0 => RemoteAllowed)
    /\ [][AttemptEnds({"result"}) => (_consecutiveErrors' = 0 /\ RemoteAllowed')]_vars


-----------------------------------------------------------------------------
(* The V2 header and the parameter tuples *)

ComparedHeader == <<ComparedBuffer[2], ComparedBuffer[3], ComparedBuffer[4]>>

HeaderFor(params) == <<HeaderByte1(params), HeaderByte2(params), HeaderByte3(params)>>

ConsistentV2RecordCompared ==
    /\ DecodeReached
    /\ Len(ComparedBuffer) >= 7
    /\ ComparedBuffer[1] = 2
    /\ Len(ComparedBuffer) = DeclaredLengthOf(ComparedBuffer)

\* C28: the V2 header is a bijection between the valid parameter tuples and
\* the values of bytes 1..3: decoding the header hash wrote gives the tuple
\* hash was called with, and every header decodes to a tuple inside the V2
\* bounds whose header it is, so that compare of a V2 record of consistent
\* length never fails with a parameter error
C28_HeaderIsABijection ==
    /\ HashSucceeded =>
          /\ IsValidParams(hashParams)
          /\ DecodeParamsV2(fromBase64(hashOut.value)) = hashParams
    /\ ConsistentV2RecordCompared =>
          /\ IsValidParams(DecodeParamsV2(ComparedBuffer))
          /\ HeaderFor(DecodeParamsV2(ComparedBuffer)) = ComparedHeader
          /\ IsBooleanResult(cmpOut)
          /\ cmpOut.error \notin ParameterErrors

\* the header of all ones was decoded to the all-maximum tuple and compared
C28_Witness ==
    /\ ConsistentV2RecordCompared
    /\ ComparedHeader = <<255, 255, 255>>
    /\ DecodeParamsV2(ComparedBuffer) = MaxTuple
    /\ Len(ComparedBuffer) = 322
    /\ cmpOut = Returned(FALSE)


-----------------------------------------------------------------------------
(* Comparing the whole record and comparing the key *)

\* the fields of a V2 record as the layout documents them
SaltlenIn(buf) == (buf[3] % 32) + 16
SaltIn(buf) == SubSeq(buf, 5, 4 + SaltlenIn(buf))
KeyIn(buf) == SubSeq(buf, 5 + SaltlenIn(buf), Len(buf))

\* the key the primitive derives from data with the record's salt and the
\* parameters its header stands for
KeyDerivedFor(data, buf) ==
    LET key == scryptSync(data, SaltIn(buf), buf[4] + 16, Pow2((buf[3] \div 32) + 12),
                          (buf[2] \div 16) + 1, (buf[2] % 16) + 1)
    IN SubSeq(key, 1, Len(key))

\* C29: for a V2 record of consistent length compare returns true exactly
\* when the key derived from the data with the record's salt and decoded
\* parameters equals the key bytes of the record: comparing the re-encoded
\* buffer with the stored one gives what comparing the two keys gives
C29_WholeRecordIsKeyComparison ==
    ConsistentV2RecordCompared =>
        cmpOut = Returned(KeyDerivedFor(cmpData, ComparedBuffer) = KeyIn(ComparedBuffer))

\* the record of hash with its last key byte altered, compared with its data
C29_Witness ==
    /\ HashSucceeded
    /\ ConsistentV2RecordCompared
    /\ cmpData = hashData
    /\ cmpHash # stored
    /\ SaltIn(ComparedBuffer) = hashSalt
    /\ KeyDerivedFor(cmpData, ComparedBuffer) # KeyIn(ComparedBuffer)
    /\ cmpOut = Returned(FALSE)


-----------------------------------------------------------------------------
(* What changes the backoff state *)

BackoffState == <<_consecutiveErrors, _offlineUntil>>

\* a remote attempt moved on in this step: its request or its body settled
RemoteAttemptMoves ==
    \E call \in At("request") \cup At("body") : Copies(call)' < Copies(call)

\* a call started and skipped the remote, or a job of the pool moved on
SkippedOrLocalStep ==
    \/ started' = started + 1 /\ ~RemoteAllowed
    \/ \E call \in At("running") : Copies(call)' < Copies(call)
    \/ Len(queue') < Len(queue)

\* C30: only the outcome of a remote attempt changes the backoff state: a
\* call that skips the remote while the client is offline leaves
\* consecutiveErrors and offlineUntil as they are, and so do the success and
\* the failure of a local computation
C30_OnlyRemoteOutcomesChangeBackoff ==
    [][/\ BackoffState' # BackoffState => RemoteAttemptMoves
       /\ SkippedOrLocalStep => BackoffState' = BackoffState]_vars

\* while offline after one failure, a call skipped the remote and was
\* computed locally; the backoff state is that of the failure
C30_Witness ==
    /\ _consecutiveErrors = 1
    /\ _offlineUntil = lastFailureAt + _backoffIncrement
    /\ \E call \in At("done") :
          /\ call.remote = "skipped"
          /\ call.updates = <<>>
          /\ call.ret \in {WithResult("record"), WithResult("true"), WithError(ErrData)}

=============================================================================
